---- MODULE Spec2Model ----
(***************************************************************************)
(* Model of the local Git contribution statistics CLI (main.go, scan.go,    *)
(* stats.go).                                                              *)
(*                                                                         *)
(* Time is counted in whole hours since an arbitrary epoch (an "instant"). *)
(* A Location maps instants to wall-clock time; it has at most one change  *)
(* of UTC offset (a daylight-saving transition).  Local day numbers are    *)
(* wall-clock hours \div 24 and a local day number that is a multiple of 7 *)
(* is a Sunday.  Strings whose characters the code inspects (file names,   *)
(* extensions, cell texts) are sequences of one-character strings.         *)
(***************************************************************************)
EXTENDS Integers, Sequences, FiniteSets, TLC

VARIABLES
    now,            \* the wall clock: the instant time.Now() returns
    loc,            \* time.Local: [at, before, after]
    email,          \* the -email option
    repos,          \* what the history provider has delivered so far:
                    \* one sequence of commits per repository opened
    pc,             \* position of the invocation
    commits,        \* processRepositories: commits map[int]int
    allFileTypes,   \* processRepositories: allFileTypes map[string]int
    fileTypes,      \* fillCommits: fileTypes map[string]int
    offset,         \* fillCommits: offset
    fileTypeStats,  \* processRepositories: fileTypeStats []FileTypeStats
    cols,           \* printCommitsStats: cols map[int]column
    out,            \* what has been written to standard output
    arg,            \* argument(s) of the function applied last
    ret,            \* its result(s)
    file,           \* the dot file: [exists, content]
    folder,         \* the -add option
    paths,          \* the lines parseFileLinesToSlice returned
    found,          \* the folders recursiveScanFolder returned
    raised          \* the errors met so far: [at, what]

\* what the command line, the file system and the Git library hold
env == <<file, folder, paths, found, raised>>

vars == <<now, loc, email, repos, pc, commits, allFileTypes, fileTypes,
          offset, fileTypeStats, cols, out, arg, ret, env>>

----------------------------------------------------------------------------
(* Program constants *)

outOfRange == 99999
daysInLastSixMonths == 183
weeksInLastSixMonths == 26

(* Bounds of the model *)

MaxRepos == 2
MaxCommits == 2
MaxNameLen == 4
MaxFound == 2
MaxCount == 999
ClockStep == 12
TodayBase == 210
TransitionDaysAgo == 3

----------------------------------------------------------------------------
(* Generic helpers *)

Range(s) == {s[i] : i \in DOMAIN s}

EmptyMap == [x \in {} |-> 0]

\* m[k] of a Go map with int values: the zero value when k is absent
Get(m, k) == IF k \in DOMAIN m THEN m[k] ELSE 0

\* m[k] += n
Add(m, k, n) == IF k \in DOMAIN m THEN [m EXCEPT ![k] = @ + n]
                                  ELSE m @@ (k :> n)

Min(S) == CHOOSE x \in S : \A y \in S : x <= y

----------------------------------------------------------------------------
(* package time *)

HoursPerDay == 24

\* UTC offset in force at an instant
OffsetAt(l, t) == IF t < l.at THEN l.before ELSE l.after

\* wall-clock reading of an instant
Wall(l, t) == t + OffsetAt(l, t)

\* t.Date(): the local day number
LocalDay(l, t) == Wall(l, t) \div HoursPerDay

\* time.Date(y, m, d, hour, 0, 0, 0, loc): the instant with that wall clock
DateAt(l, day, hour) ==
    LET w == day * HoursPerDay + hour
    IN  IF w - l.before < l.at THEN w - l.before ELSE w - l.after

\* t.Weekday(): 0 = Sunday .. 6 = Saturday
Weekday(l, t) == LocalDay(l, t) % 7

getBeginningOfDay(l, t) == DateAt(l, LocalDay(l, t), 0)

\* "for date.Before(now)" still holds at the n-th test, the date having been
\* advanced by 24 hours n times
loopGoesOn(date, midnight, n) == date + n * HoursPerDay < midnight

\* the loop returns days at the first test that fails, or outOfRange once
\* days exceeds daysInLastSixMonths
countDaysSinceDate(l, clock, date) ==
    LET midnight == getBeginningOfDay(l, clock)
    IN  IF \A n \in 0..daysInLastSixMonths : loopGoesOn(date, midnight, n)
        THEN outOfRange
        ELSE CHOOSE n \in 0..daysInLastSixMonths :
                /\ ~loopGoesOn(date, midnight, n)
                /\ n = 0 \/ loopGoesOn(date, midnight, n - 1)

calcOffset(l, clock) ==
    LET weekday == Weekday(l, clock)
    IN  CASE weekday = 0 -> 7
          [] weekday = 1 -> 6
          [] weekday = 2 -> 5
          [] weekday = 3 -> 4
          [] weekday = 4 -> 3
          [] weekday = 5 -> 2
          [] weekday = 6 -> 1

----------------------------------------------------------------------------
(* File extensions *)

NoExtension == <<"n","o","_","e","x","t","e","n","s","i","o","n">>

\* strings.Split(s, sep) for a one-character separator
RECURSIVE Split(_, _)
Split(s, sep) ==
    IF \A i \in 1..Len(s) : s[i] # sep
    THEN <<s>>
    ELSE LET i == Min({n \in 1..Len(s) : s[n] = sep})
         IN  <<SubSeq(s, 1, i - 1)>> \o Split(SubSeq(s, i + 1, Len(s)), sep)

\* (variant: the text after the first "." instead of the last)
getFileExtensionFirstDot(filename) ==
    LET parts == Split(filename, ".")
    IN  IF Len(parts) < 2 THEN NoExtension
        ELSE <<".">> \o parts[2]

getFileExtension(filename) ==
    LET parts == Split(filename, ".")
    IN  IF Len(parts) < 2 THEN NoExtension
        ELSE <<".">> \o parts[Len(parts)]

\* files.ForEach over the commit's files
RECURSIVE processFileTypes(_, _)
processFileTypes(files, types) ==
    IF files = <<>> THEN types
    ELSE processFileTypes(Tail(files),
                          Add(types, getFileExtension(Head(files)), 1))

----------------------------------------------------------------------------
(* Inputs *)

MainGo == <<"m","a","i","n",".","g","o">>
UtilGo == <<"u","t","i","l",".","g","o">>
Readme == <<"r","e","a","d","m","e">>
NotesMD == <<"n","o","t","e","s",".","M","D">>

TargetEmail == "a@x.com"
OtherEmail == "A@x.com"
GoFiles == <<MainGo, UtilGo, Readme>>
FileLists == {GoFiles, <<NotesMD>>}

\* the commits a history can hold: <<author, days before today, hour of the
\* day, files>>
CommitKinds ==
    {<<TargetEmail, 0, 9, GoFiles>>, <<TargetEmail, 8, 23, <<NotesMD>> >>,
     <<TargetEmail, 183, 0, GoFiles>>, <<TargetEmail, 184, 23, GoFiles>>,
     <<OtherEmail, 0, 9, GoFiles>>, <<OtherEmail, 184, 23, <<NotesMD>> >>}
NowHours == {13}

Fixed(today) == [at |-> 0, before |-> 0, after |-> 0]
SpringForward(today) ==
    [at |-> (today - TransitionDaysAgo) * HoursPerDay + 2,
     before |-> 0, after |-> 1]
FallBack(today) ==
    [at |-> (today - TransitionDaysAgo) * HoursPerDay + 1,
     before |-> 1, after |-> 0]

Today == LocalDay(loc, now)

CommitInputs ==
    {[email |-> k[1], when |-> DateAt(loc, Today - k[2], k[3]),
      files |-> k[4]] : k \in CommitKinds}

----------------------------------------------------------------------------
(* scan.go: the dot file *)

NoFile == [exists |-> FALSE, content |-> <<>>]
FileOf(content) == [exists |-> TRUE, content |-> content]

\* the handle is the one os.OpenFile returned: nil when the file was not
\* there, the file os.Create made being dropped
openFile(f) ==
    IF f.exists THEN [file |-> f, handle |-> "open"]
    ELSE [file |-> FileOf(<<>>), handle |-> "nil"]

\* dropCR of package bufio
dropCR(line) ==
    IF line # <<>> /\ line[Len(line)] = "\r"
    THEN SubSeq(line, 1, Len(line) - 1) ELSE line

\* the tokens of bufio.ScanLines: the text between newlines, a last empty
\* line dropped
ScanLines(content) ==
    LET parts == Split(content, "\n")
        kept == IF parts[Len(parts)] = <<>>
                THEN SubSeq(parts, 1, Len(parts) - 1) ELSE parts
    IN  [i \in 1..Len(kept) |-> dropCR(kept[i])]

\* reading from a nil *os.File fails with ErrInvalid, which scanner.Err()
\* returns and the function panics with
parseFileLinesToSlice(f) ==
    LET o == openFile(f)
    IN  IF o.handle = "nil"
        THEN [file |-> o.file, panics |-> TRUE, lines |-> <<>>]
        ELSE [file |-> o.file, panics |-> FALSE,
              lines |-> ScanLines(o.file.content)]

sliceContains(slice, value) == \E i \in DOMAIN slice : slice[i] = value

RECURSIVE joinSlices(_, _)
joinSlices(new, existing) ==
    IF new = <<>> THEN existing
    ELSE joinSlices(Tail(new),
                    IF sliceContains(existing, Head(new)) THEN existing
                    ELSE Append(existing, Head(new)))

\* strings.Join(list, sep)
RECURSIVE Join(_, _)
Join(list, sep) ==
    IF list = <<>> THEN <<>>
    ELSE IF Len(list) = 1 THEN list[1]
    ELSE list[1] \o <<sep>> \o Join(Tail(list), sep)

dumpStringsSliceToFile(list) == FileOf(Join(list, "\n"))

addNewSliceElementsToFile(f, newRepos) ==
    LET existingRepos == parseFileLinesToSlice(f)
    IN  IF existingRepos.panics
        THEN [file |-> existingRepos.file, panics |-> TRUE]
        ELSE [file |-> dumpStringsSliceToFile(
                           joinSlices(newRepos, existingRepos.lines)),
              panics |-> FALSE]

\* the paths of the repositories a scan can find
PathNames == <<"a", "b", "c", "d">>
Path(i) == <<"/", "r", "/", PathNames[i]>>

----------------------------------------------------------------------------
(* processRepositories and fillCommits *)

TotalCommits == LET RECURSIVE n(_)
                    n(i) == IF i = 0 THEN 0 ELSE n(i - 1) + Len(repos[i])
                IN  n(Len(repos))

\* (variant: the callback without the test of the author's email)
commitCallbackNoFilter(l, clock, target, off, c, st) ==
    LET daysAgo == countDaysSinceDate(l, clock, c.when) + off
    IN  IF daysAgo # outOfRange
        THEN [commits |-> Add(st.commits, daysAgo, 1),
              fileTypes |-> processFileTypes(c.files, st.fileTypes)]
        ELSE st

\* the callback of iterator.ForEach
commitCallback(l, clock, target, off, c, st) ==
    LET daysAgo == countDaysSinceDate(l, clock, c.when) + off
    IN  IF c.email # target THEN st
        ELSE IF daysAgo # outOfRange
             THEN [commits |-> Add(st.commits, daysAgo, 1),
                   fileTypes |-> processFileTypes(c.files, st.fileTypes)]
             ELSE st

\* (variant: allFileTypes[ext] = count, the earlier total overwritten)
RECURSIVE mergeFileTypesOverwrite(_, _)
mergeFileTypesOverwrite(all, new) ==
    IF DOMAIN new = {} THEN all
    ELSE LET ext == CHOOSE e \in DOMAIN new : TRUE
         IN  mergeFileTypesOverwrite(
                (ext :> new[ext]) @@ all,
                [e \in DOMAIN new \ {ext} |-> new[e]])

\* for ext, count := range newFileTypes { allFileTypes[ext] += count }
RECURSIVE mergeFileTypes(_, _)
mergeFileTypes(all, new) ==
    IF DOMAIN new = {} THEN all
    ELSE LET ext == CHOOSE e \in DOMAIN new : TRUE
         IN  mergeFileTypes(Add(all, ext, new[ext]),
                            [e \in DOMAIN new \ {ext} |-> new[e]])

seedCommits == [i \in 1..daysInLastSixMonths |-> 0]

InitCommon ==
    /\ email = TargetEmail
    /\ repos = <<>>
    /\ commits = EmptyMap
    /\ allFileTypes = EmptyMap
    /\ fileTypes = EmptyMap
    /\ offset = 0
    /\ fileTypeStats = <<>>
    /\ cols = EmptyMap
    /\ out = <<>>
    /\ arg = <<>>
    /\ ret = <<>>
    /\ paths = <<>>
    /\ found = <<>>
    /\ raised = <<>>

\* a stats invocation on any day of the week, in a zone whose UTC offset
\* does not change (InitDays below also has zones with a transition)
Init ==
    /\ \E w \in 0..6, h \in NowHours :
          /\ loc = Fixed(TodayBase + w)
          /\ now = DateAt(loc, TodayBase + w, h)
    /\ \E n \in 0..MaxRepos :
          file = dumpStringsSliceToFile([i \in 1..n |-> Path(i)])
    /\ folder = ""
    /\ pc = "main"
    /\ InitCommon

\* (variant: the -add option is not looked at)
MainIgnoresFolder ==
    /\ pc = "main"
    /\ pc' = "stats"
    /\ UNCHANGED <<now, loc, email, repos, commits, allFileTypes, fileTypes,
                   offset, fileTypeStats, cols, out, arg, ret, env>>

\* main: scan(folder) and return, or stats(email)
Main ==
    /\ pc = "main"
    /\ pc' = IF folder # "" THEN "scan" ELSE "stats"
    /\ UNCHANGED <<now, loc, email, repos, commits, allFileTypes, fileTypes,
                   offset, fileTypeStats, cols, out, arg, ret, env>>

\* stats(email) -> processRepositories: the list is read from the dot file,
\* the maps are made and seeded
ProcessRepositories ==
    /\ pc = "stats"
    /\ \E read \in {parseFileLinesToSlice(file)} :
          /\ file' = read.file
          /\ IF read.panics
             THEN /\ pc' = "parseFileLinesToSlice panics"
                  /\ UNCHANGED <<paths, commits, allFileTypes>>
             ELSE /\ paths' = read.lines
                  /\ commits' = seedCommits
                  /\ allFileTypes' = EmptyMap
                  /\ pc' = "range"
    /\ UNCHANGED <<now, loc, email, repos, fileTypes, offset, fileTypeStats,
                   cols, out, arg, ret, folder, found, raised>>

\* fillCommits up to the ForEach: the next repository of the list is opened
FillCommitsOpen ==
    /\ pc = "range"
    /\ Len(repos) < Len(paths)
    /\ repos' = Append(repos, <<>>)
    /\ fileTypes' = EmptyMap
    /\ offset' = calcOffset(loc, now)
    /\ pc' = "foreach"
    /\ UNCHANGED <<now, loc, email, commits, allFileTypes, fileTypeStats,
                   cols, out, arg, ret, env>>

\* one commit of the history is handed to the callback
ForEachCommit ==
    /\ pc = "foreach"
    /\ TotalCommits < MaxCommits
    /\ \E c \in CommitInputs :
          LET st == commitCallback(loc, now, email, offset, c,
                        [commits |-> commits, fileTypes |-> fileTypes])
          IN  /\ repos' = [repos EXCEPT ![Len(repos)] = Append(@, c)]
              /\ commits' = st.commits
              /\ fileTypes' = st.fileTypes
    /\ UNCHANGED <<now, loc, email, pc, allFileTypes, offset, fileTypeStats,
                   cols, out, arg, ret, env>>

\* the history is exhausted: fillCommits returns and its file types are merged
FillCommitsReturn ==
    /\ pc = "foreach"
    /\ allFileTypes' = mergeFileTypes(allFileTypes, fileTypes)
    /\ pc' = "range"
    /\ UNCHANGED <<now, loc, email, repos, commits, fileTypes, offset,
                   fileTypeStats, cols, out, arg, ret, env>>

\* (variant: ascending order)
lessAscending(a, b) == a.Count < b.Count

\* the comparison handed to sort.Slice: higher counts first
less(a, b) == a.Count > b.Count

\* insertionSort of package sort (what sort.Slice runs on a slice of at
\* most 12 elements)

RECURSIVE insertBack(_, _)
insertBack(s, j) ==
    IF j > 1 /\ less(s[j], s[j - 1])
    THEN insertBack([s EXCEPT ![j] = s[j - 1], ![j - 1] = s[j]], j - 1)
    ELSE s

RECURSIVE insertionSort(_, _)
insertionSort(s, i) ==
    IF i > Len(s) THEN s ELSE insertionSort(insertBack(s, i), i + 1)

sortSlice(s) == insertionSort(s, 2)

\* the orders in which "for ext, count := range allFileTypes" can visit the
\* map: every arrangement of its entries
Arrangements(m) ==
    LET n == Cardinality(DOMAIN m)
    IN  {[i \in 1..n |-> [Extension |-> f[i], Count |-> m[f[i]]]] :
            f \in {g \in [1..n -> DOMAIN m] :
                      \A a, b \in 1..n : a # b => g[a] # g[b]}}

\* the repository list is exhausted: the file types are put in a slice and
\* sorted, and processRepositories returns (the list it ranged over is a
\* local of it and is gone)
RankFileTypes ==
    /\ pc = "range"
    /\ Len(repos) = Len(paths)
    /\ \E s \in Arrangements(allFileTypes) : fileTypeStats' = sortSlice(s)
    /\ repos' = <<>>
    /\ paths' = <<>>
    /\ pc' = "printCommitsStats"
    /\ UNCHANGED <<now, loc, email, commits, allFileTypes, fileTypes,
                   offset, cols, out, arg, ret, file, folder, found,
                   raised>>

----------------------------------------------------------------------------
(* printCommitsStats *)

Max(S) == CHOOSE x \in S : \A y \in S : x >= y

\* the members of S, all within lo..hi, in ascending order
RECURSIVE ascending(_, _, _)
ascending(S, lo, hi) ==
    IF S = {} THEN <<>>
    ELSE IF lo = hi THEN <<lo>>
    ELSE LET mid == (lo + hi) \div 2
         IN  ascending({x \in S : x <= mid}, lo, mid)
                \o ascending({x \in S : x > mid}, mid + 1, hi)

\* the keys of the map, sorted by sort.Ints
sortMapIntoSlice(m) ==
    IF DOMAIN m = {} THEN <<>>
    ELSE ascending(DOMAIN m, Min(DOMAIN m), Max(DOMAIN m))

\* the body of the loop of buildCols, on st = [cols, col]
buildStep(st, k, m) ==
    LET week == k \div 7
        dayinweek == k % 7
        reset == IF dayinweek = 0 THEN <<>> ELSE st.col
        col == Append(reset, m[k])
    IN  [cols |-> IF dayinweek = 6 THEN (week :> col) @@ st.cols
                                   ELSE st.cols,
         col |-> col]

\* the loop over keys[lo..hi], left to right
RECURSIVE buildRange(_, _, _, _, _)
buildRange(keys, m, lo, hi, st) ==
    IF lo > hi THEN st
    ELSE IF lo = hi THEN buildStep(st, keys[lo], m)
    ELSE LET mid == (lo + hi) \div 2
             left == buildRange(keys, m, lo, mid, st)
         IN  \* (the test makes TLC compute the left half first)
             IF Len(left.col) >= 0
             THEN buildRange(keys, m, mid + 1, hi, left)
             ELSE left

buildCols(keys, m) ==
    buildRange(keys, m, 1, Len(keys), [cols |-> EmptyMap, col |-> <<>>]).cols

Digits == <<"0", "1", "2", "3", "4", "5", "6", "7", "8", "9">>

\* %d
RECURSIVE Itoa(_)
Itoa(n) == IF n < 10 THEN <<Digits[n + 1]>>
           ELSE Itoa(n \div 10) \o <<Digits[(n % 10) + 1]>>

\* what printCell writes: the escape sequence and the visible text
printCell(val, today) ==
    LET tier == CASE val > 0 /\ val < 5 -> "\\033[1;30;47m"
                  [] val >= 5 /\ val < 10 -> "\\033[1;30;43m"
                  [] val >= 10 -> "\\033[1;30;42m"
                  [] OTHER -> "\\033[0;37;30m"
        escape == IF today THEN "\\033[1;37;45m" ELSE tier
        lead == CASE val >= 10 -> <<" ">>
                  [] val >= 100 -> <<>>
                  [] OTHER -> <<" ", " ">>
    IN  IF val = 0
        THEN [escape |-> escape, text |-> <<" ", " ", "-", " ">>]
        ELSE [escape |-> escape, text |-> lead \o Itoa(val) \o <<" ">>]

printDayCol(day) ==
    CASE day = 1 -> <<" ", "M", "o", "n", " ">>
      [] day = 3 -> <<" ", "W", "e", "d", " ">>
      [] day = 5 -> <<" ", "F", "r", "i", " ">>
      [] OTHER -> <<" ", " ", " ", " ", " ">>

Item(kind, week, row, today, escape, text) ==
    [kind |-> kind, week |-> week, row |-> row, today |-> today,
     escape |-> escape, text |-> text]

\* printMonths: one slot of four characters per turn of its loop (which
\* month names are written is not modelled); week holds the number of slots
printMonths(l, clock) ==
    LET start == getBeginningOfDay(l, clock)
                    - daysInLastSixMonths * HoursPerDay
        after(n) == start + n * 7 * HoursPerDay > clock
        turns == CHOOSE n \in 1..(daysInLastSixMonths + 1) :
                    after(n) /\ (n = 1 \/ ~after(n - 1))
    IN  Item("months", turns, -1, FALSE, "", <<>>)

CellsPerRow == weeksInLastSixMonths + 2

\* the cell of week i in row j goes wrong when col[j] is out of range
cellPanics(c, l, clock, i, j) ==
    /\ i \in DOMAIN c
    /\ i = 0 /\ j = calcOffset(l, clock) - 1
    /\ ~(j < Len(c[i]))

\* the body of the inner loop of printCells for week i, row j
cellItem(c, l, clock, i, j) ==
    LET blank == printCell(0, FALSE)
        cell == IF i \in DOMAIN c
                THEN IF i = 0 /\ j = calcOffset(l, clock) - 1
                     THEN printCell(c[i][j + 1], TRUE)
                     ELSE IF Len(c[i]) > j
                          THEN printCell(c[i][j + 1], FALSE)
                          ELSE blank
                ELSE blank
        today == i \in DOMAIN c /\ i = 0 /\ j = calcOffset(l, clock) - 1
    IN  Item("cell", i, j, today, cell.escape, cell.text)

\* the p-th thing printCells writes after the months: per row the day
\* label, the cells of weeks weeksInLastSixMonths+1 down to 0, a newline
rowOf(p) == 6 - ((p - 1) \div (CellsPerRow + 2))
slotOf(p) == (p - 1) % (CellsPerRow + 2)
weekOf(p) == CellsPerRow - slotOf(p)

gridItem(c, l, clock, p) ==
    IF slotOf(p) = 0
    THEN Item("day", -1, rowOf(p), FALSE, "", printDayCol(rowOf(p)))
    ELSE IF slotOf(p) = CellsPerRow + 1
    THEN Item("newline", -1, rowOf(p), FALSE, "", <<"\n">>)
    ELSE cellItem(c, l, clock, weekOf(p), rowOf(p))

GridSize == 7 * (CellsPerRow + 2)

gridPanics(c, l, clock) ==
    {p \in 1..GridSize : /\ slotOf(p) \in 1..CellsPerRow
                         /\ cellPanics(c, l, clock, weekOf(p), rowOf(p))}

\* everything printCells writes, up to the cell at which it goes wrong
printCells(c, l, clock) ==
    LET bad == gridPanics(c, l, clock)
        last == IF bad = {} THEN GridSize ELSE Min(bad) - 1
    IN  <<printMonths(l, clock)>>
            \o [p \in 1..last |-> gridItem(c, l, clock, p)]

PrintCommitsStats ==
    /\ pc = "printCommitsStats"
    /\ \E keys \in {sortMapIntoSlice(commits)} :
       \E built \in {buildCols(keys, commits)} :
          /\ cols' = built
          /\ out' = out \o printCells(built, loc, now)
          /\ pc' = IF gridPanics(built, loc, now) = {}
                   THEN "printFileTypeStats" ELSE "panic"
    /\ UNCHANGED <<now, loc, email, repos, commits, allFileTypes, fileTypes,
                   offset, fileTypeStats, arg, ret, env>>

\* the table of the first ten file types
printFileTypeStats(stats) ==
    LET limit == IF Len(stats) < 10 THEN Len(stats) ELSE 10
    IN  <<Item("filetypes", -1, -1, FALSE, "", <<>>)>>
            \o [i \in 1..limit |->
                  Item("filetype", -1, i, FALSE, "",
                       <<stats[i].Extension, stats[i].Count>>)]

PrintFileTypeStats ==
    /\ pc = "printFileTypeStats"
    /\ out' = out \o printFileTypeStats(fileTypeStats)
    /\ pc' = "done"
    /\ UNCHANGED <<now, loc, email, repos, commits, allFileTypes, fileTypes,
                   offset, fileTypeStats, cols, arg, ret, env>>

----------------------------------------------------------------------------
(* The aggregation as functions of a whole repository list *)

\* iterator.ForEach over one history, from the maps st = [commits, fileTypes]
RECURSIVE forEach(_, _, _, _, _, _)
forEach(l, clock, target, off, history, st) ==
    IF history = <<>> THEN st
    ELSE forEach(l, clock, target, off, Tail(history),
                 commitCallback(l, clock, target, off, Head(history), st))

fillCommits(l, clock, target, history, cm) ==
    forEach(l, clock, target, calcOffset(l, clock), history,
            [commits |-> cm, fileTypes |-> EmptyMap])

\* the loop of processRepositories over list, from st = [commits, allFileTypes]
RECURSIVE rangeRepos(_, _, _, _, _)
rangeRepos(l, clock, target, list, st) ==
    IF list = <<>> THEN st
    ELSE LET r == fillCommits(l, clock, target, Head(list), st.commits)
         IN  rangeRepos(l, clock, target, Tail(list),
                [commits |-> r.commits,
                 allFileTypes |-> mergeFileTypes(st.allFileTypes,
                                                 r.fileTypes)])

processRepositories(l, clock, target, list) ==
    rangeRepos(l, clock, target, list,
               [commits |-> seedCommits, allFileTypes |-> EmptyMap])

----------------------------------------------------------------------------
(* Functions on their own *)

Alphabet == {"a", "G", "."}

FileNames == UNION {[1..n -> Alphabet] : n \in 0..MaxNameLen}

\* <<days before today, hour of the day>> of the timestamps tried
DayInputs == {<<d, h>> : d \in {0, 1, 2, 3, 4, 5, 182, 183, 184},
                         h \in {0, 9, 23}}
DayNowHours == {13, 23}

InitExt ==
    /\ loc = Fixed(TodayBase)
    /\ now = DateAt(loc, TodayBase, 13)
    /\ file = NoFile
    /\ folder = ""
    /\ pc = "getFileExtension"
    /\ InitCommon

\* getFileExtension(file.Name)
GetFileExtension ==
    /\ pc = "getFileExtension"
    /\ \E name \in FileNames \cup Range(<<MainGo, UtilGo, Readme, NotesMD>>) :
          /\ arg' = <<name>>
          /\ ret' = <<getFileExtension(name)>>
    /\ pc' = "returned"
    /\ UNCHANGED <<now, loc, email, repos, commits, allFileTypes,
                   fileTypes, offset, fileTypeStats, cols, out, env>>

\* the callback on one commit made now by the target author, on fresh maps
CallbackFiles ==
    /\ pc = "getFileExtension"
    /\ \E files \in FileLists \cup {<<n>> : n \in FileNames} :
          /\ arg' = files
          /\ ret' = commitCallback(loc, now, email, calcOffset(loc, now),
                        [email |-> email, when |-> now, files |-> files],
                        [commits |-> seedCommits, fileTypes |-> EmptyMap])
    /\ pc' = "callback"
    /\ UNCHANGED <<now, loc, email, repos, commits, allFileTypes,
                   fileTypes, offset, fileTypeStats, cols, out, env>>

NextExt == GetFileExtension \/ CallbackFiles

SpecExt == InitExt /\ [][NextExt]_vars

InitDays ==
    /\ \E w \in 0..6, h \in DayNowHours :
       \E l \in {Fixed(TodayBase + w), SpringForward(TodayBase + w),
                 FallBack(TodayBase + w)} :
          /\ loc = l
          /\ now = DateAt(l, TodayBase + w, h)
    /\ file = NoFile
    /\ folder = ""
    /\ pc = "countDaysSinceDate"
    /\ InitCommon

\* daysAgo := countDaysSinceDate(c.Author.When) + offset, for two timestamps
CountDays ==
    /\ pc = "countDaysSinceDate"
    /\ \E a, b \in DayInputs :
          LET t1 == DateAt(loc, Today - a[1], a[2])
              t2 == DateAt(loc, Today - b[1], b[2])
          IN  /\ arg' = <<t1, t2>>
              /\ ret' = <<countDaysSinceDate(loc, now, t1)
                             + calcOffset(loc, now),
                          countDaysSinceDate(loc, now, t2)
                             + calcOffset(loc, now)>>
    /\ pc' = "counted"
    /\ UNCHANGED <<now, loc, email, repos, commits, allFileTypes,
                   fileTypes, offset, fileTypeStats, cols, out, env>>

NextDays == CountDays

SpecDays == InitDays /\ [][NextDays]_vars

InitCell ==
    /\ loc = Fixed(TodayBase)
    /\ now = DateAt(loc, TodayBase, 13)
    /\ file = NoFile
    /\ folder = ""
    /\ pc = "printCell"
    /\ InitCommon

\* printCell(val, today) for a count of up to three digits
PrintCell ==
    /\ pc = "printCell"
    /\ \E val \in 0..MaxCount, today \in BOOLEAN :
          /\ arg' = <<val, today>>
          /\ ret' = printCell(val, today)
    /\ pc' = "printed"
    /\ UNCHANGED <<now, loc, email, repos, commits, allFileTypes,
                   fileTypes, offset, fileTypeStats, cols, out, env>>

NextCell == PrintCell

SpecCell == InitCell /\ [][NextCell]_vars

----------------------------------------------------------------------------
(* scan(folder), and the program run again and again on the same dot file *)

Folders == {"", "/r"}

\* what recursiveScanFolder can return: every directory is visited once, so
\* no path comes twice
Discoverable ==
    {N \in UNION {[1..n -> {Path(i) : i \in 1..MaxFound}] : n \in 0..MaxFound} :
        \A a, b \in DOMAIN N : a # b => N[a] # N[b]}

\* scan up to addNewSliceElementsToFile: the heading and every path found
\* are written
Scan ==
    /\ pc = "scan"
    /\ \E N \in Discoverable :
          /\ found' = N
          /\ out' = out \o <<Item("found folders", -1, -1, FALSE, "", <<>>)>>
                        \o [i \in 1..Len(N) |->
                              Item("folder", -1, i, FALSE, "", N[i])]
    /\ pc' = "addNewSliceElementsToFile"
    /\ UNCHANGED <<now, loc, email, repos, commits, allFileTypes, fileTypes,
                   offset, fileTypeStats, cols, arg, ret, file, folder,
                   paths, raised>>

\* scanGitFolders cannot read a directory: log.Fatal(err)
ScanFatal ==
    /\ pc = "scan"
    /\ out' = Append(out, Item("found folders", -1, -1, FALSE, "", <<>>))
    /\ pc' = "log.Fatal"
    /\ UNCHANGED <<now, loc, email, repos, commits, allFileTypes, fileTypes,
                   offset, fileTypeStats, cols, arg, ret, env>>

\* the rest of scan
AddNewSliceElementsToFile ==
    /\ pc = "addNewSliceElementsToFile"
    /\ \E r \in {addNewSliceElementsToFile(file, found)} :
          /\ file' = r.file
          /\ IF r.panics
             THEN /\ pc' = "parseFileLinesToSlice panics"
                  /\ out' = out
             ELSE /\ pc' = "exit"
                  /\ out' = Append(out, Item("successfully added", -1, -1,
                                             FALSE, "", <<>>))
    /\ UNCHANGED <<now, loc, email, repos, commits, allFileTypes, fileTypes,
                   offset, fileTypeStats, cols, arg, ret, folder, paths,
                   found, raised>>

Ended == pc \in {"exit", "log.Fatal", "parseFileLinesToSlice panics",
                 "done", "panic"}

\* the program is started again: only the dot file is left of the last run
Run ==
    /\ Ended
    /\ folder' \in Folders
    /\ pc' = "main"
    /\ repos' = <<>>
    /\ commits' = EmptyMap
    /\ allFileTypes' = EmptyMap
    /\ fileTypes' = EmptyMap
    /\ offset' = 0
    /\ fileTypeStats' = <<>>
    /\ cols' = EmptyMap
    /\ out' = <<>>
    /\ paths' = <<>>
    /\ found' = <<>>
    /\ UNCHANGED <<now, loc, email, arg, ret, file, raised>>

\* the first run ever, on a Wednesday: there is no dot file
InitCli ==
    /\ \E h \in NowHours :
          /\ loc = Fixed(TodayBase + 3)
          /\ now = DateAt(loc, TodayBase + 3, h)
    /\ file = NoFile
    /\ folder \in Folders
    /\ pc = "main"
    /\ InitCommon

----------------------------------------------------------------------------
(* Errors of the Git library *)

\* (variant: the repository that cannot be read is skipped)
FillCommitsSkips ==
    /\ pc = "range"
    /\ Len(repos) < Len(paths)
    /\ \E what \in {"PlainOpen", "Head", "Log"} :
          raised' = Append(raised, [at |-> Len(repos) + 1, what |-> what])
    /\ repos' = Append(repos, <<>>)
    /\ UNCHANGED <<now, loc, email, pc, commits, allFileTypes, fileTypes,
                   offset, fileTypeStats, cols, out, arg, ret, file, folder,
                   paths, found>>

\* git.PlainOpen, repo.Head or repo.Log returns an error on the next
\* repository of the list: panic(err)
FillCommitsPanics ==
    /\ pc = "range"
    /\ Len(repos) < Len(paths)
    /\ \E what \in {"PlainOpen", "Head", "Log"} :
          raised' = Append(raised, [at |-> Len(repos) + 1, what |-> what])
    /\ pc' = "fillCommits panics"
    /\ UNCHANGED <<now, loc, email, repos, commits, allFileTypes, fileTypes,
                   offset, fileTypeStats, cols, out, arg, ret, file, folder,
                   paths, found>>

\* iterator.ForEach returns an error (its own or the callback's): panic(err)
ForEachPanics ==
    /\ pc = "foreach"
    /\ raised' = Append(raised, [at |-> Len(repos), what |-> "ForEach"])
    /\ pc' = "fillCommits panics"
    /\ UNCHANGED <<now, loc, email, repos, commits, allFileTypes, fileTypes,
                   offset, fileTypeStats, cols, out, arg, ret, file, folder,
                   paths, found>>

----------------------------------------------------------------------------
Next ==
    \/ Main
    \/ ProcessRepositories
    \/ FillCommitsOpen
    \/ ForEachCommit
    \/ FillCommitsReturn
    \/ RankFileTypes
    \/ PrintCommitsStats
    \/ PrintFileTypeStats

Spec == Init /\ [][Next]_vars

\* the same invocation with repositories that cannot be read
NextErr == Next \/ FillCommitsPanics \/ ForEachPanics

SpecErr == Init /\ [][NextErr]_vars

\* time passes between two steps of the invocation and the day ends: the
\* next time.Now() returns an instant of the next day (the clock is
\* followed over one midnight)
Tick ==
    /\ LocalDay(loc, now + ClockStep) = LocalDay(loc, now) + 1
    /\ LocalDay(loc, now + ClockStep) <= TodayBase + 7
    /\ now' = now + ClockStep
    /\ UNCHANGED <<loc, email, repos, pc, commits, allFileTypes, fileTypes,
                   offset, fileTypeStats, cols, out, arg, ret, env>>

\* the same invocation with a clock that goes on
NextClock == Next \/ Tick

SpecClock == Init /\ [][NextClock]_vars

\* runs of the program with either option, from the first one on
NextCli == Next \/ Scan \/ ScanFatal \/ AddNewSliceElementsToFile \/ Run

SpecCli == InitCli /\ [][NextCli]_vars

----------------------------------------------------------------------------
(* Properties *)

TodayEscape == "\\033[1;37;45m"

\* printCommitsStats has run (to its end or to the point where it went wrong)
Printed == pc \in {"printFileTypeStats", "done", "panic"}

\* C1: whatever weekday today is and whatever the histogram holds, printing
\* the grid does not go wrong and writes the cell of week 0, row
\* calcOffset()-1 in the "today" style.
C1_TodayCellAlwaysRendered ==
    Printed =>
        /\ pc # "panic"
        /\ \E i \in DOMAIN out :
              /\ out[i].kind = "cell"
              /\ out[i].week = 0
              /\ out[i].row = calcOffset(loc, now) - 1
              /\ out[i].today
              /\ out[i].escape = TodayEscape

\* the slots <<week, index>> of a column map
Slots(c) == UNION {{<<w, p>> : p \in 1..Len(c[w])} : w \in DOMAIN c}

\* C2: every bucket key 1..183 of the histogram processRepositories returns
\* is placed in exactly one stored week column, and the column of the last
\* key is stored even when the keys end before a key with k % 7 = 6.
C2_GridComplete ==
    Printed =>
        \A keys \in {sortMapIntoSlice(commits)} :
        \A placed \in {buildCols(keys, [k \in DOMAIN commits |-> k])} :
            /\ DOMAIN placed = DOMAIN cols
            /\ \A k \in 1..daysInLastSixMonths :
                  Cardinality({x \in Slots(placed) :
                                  placed[x[1]][x[2]] = k}) = 1
            /\ (keys[Len(keys)] \div 7) \in DOMAIN cols

\* C3: the histogram is never indexed at a key >= outOfRange.
C3_NeverIndexedOutOfRange ==
    \A k \in DOMAIN commits : k < outOfRange

\* the commits delivered so far, as <<repository, position>>
Delivered == UNION {{<<r, i>> : i \in 1..Len(repos[r])} : r \in DOMAIN repos}

\* how many delivered commits are by the target author, in the window, with
\* aligned bucket k
Matching(k) ==
    Cardinality({x \in Delivered :
        LET c == repos[x[1]][x[2]]
            d == countDaysSinceDate(loc, now, c.when)
        IN  /\ c.email = email
            /\ d # outOfRange
            /\ d + calcOffset(loc, now) = k})

\* C4: after aggregating the repositories, every bucket holds the number of
\* in-window commits by the target author whose aligned bucket it is, and
\* every other bucket holds 0.
C4_HistogramCountsMatchingCommits ==
    pc = "range" =>
        \A k \in DOMAIN commits \cup (1..(daysInLastSixMonths + 7)) :
            Get(commits, k) = Matching(k)

\* the step in which the callback handles a commit, and that commit
CallbackStep == pc = "foreach" /\ pc' = "foreach" /\ repos' # repos
Handled == repos'[Len(repos')][Len(repos'[Len(repos')])]

\* C5: a commit whose author email differs from the target email (if only
\* in case) leaves the commit histogram and the file types unchanged.
C5_OtherAuthorsSkipped ==
    [][(CallbackStep /\ Handled.email # email)
          => /\ commits' = commits
             /\ fileTypes' = fileTypes
             /\ allFileTypes' = allFileTypes]_vars

C5_Witness ==
    /\ pc = "foreach"
    /\ Len(repos[Len(repos)]) = 1
    /\ repos[Len(repos)][1].email = OtherEmail
    /\ repos[Len(repos)][1].files = GoFiles
    /\ countDaysSinceDate(loc, now, repos[Len(repos)][1].when) = 0
    /\ commits = seedCommits
    /\ fileTypes = EmptyMap

\* C6: a commit by the target author that is older than the window changes
\* neither the commit histogram nor the file types.
C6_OldCommitsIgnored ==
    [][(/\ CallbackStep
        /\ Handled.email = email
        /\ countDaysSinceDate(loc, now, Handled.when) = outOfRange)
          => /\ commits' = commits
             /\ fileTypes' = fileTypes]_vars

InWindow(t) == now - daysInLastSixMonths * HoursPerDay <= t /\ t <= now

\* C7: two timestamps in the window get the same aligned bucket exactly when
\* they lie on the same calendar day.
C7_SameDaySameBucket ==
    (pc = "counted" /\ InWindow(arg[1]) /\ InWindow(arg[2])) =>
        ((LocalDay(loc, arg[1]) = LocalDay(loc, arg[2])) <=> (ret[1] = ret[2]))

MapSum(a, b) == [k \in DOMAIN a \cup DOMAIN b |-> Get(a, k) + Get(b, k)]

\* the members of list at the positions in S, in their order
Pick(list, S) ==
    IF S = {} THEN <<>>
    ELSE LET idx == ascending(S, 1, Len(list))
         IN  [i \in 1..Len(idx) |-> list[idx[i]]]

Orders(n) == {f \in [1..n -> 1..n] : \A a, b \in 1..n : a # b => f[a] # f[b]}

\* C8: aggregating any two complementary sublists of the repository list on
\* their own and adding the results per bucket and per extension gives what
\* aggregating the whole list gave, and so does the list in any other order.
\* (Of a sublist and its complement, S is the one that holds repository 1;
\* the list is the whole list of the dot file, ranged over to its end.)
C8_MergeAssociative ==
    (pc = "range" /\ Len(repos) = Len(paths)) =>
        /\ \A S \in {T \in SUBSET (1..Len(repos)) : T = {} \/ 1 \in T} :
           \A a \in {processRepositories(loc, now, email, Pick(repos, S))} :
           \A b \in {processRepositories(loc, now, email,
                          Pick(repos, (1..Len(repos)) \ S))} :
              /\ MapSum(a.commits, b.commits) = commits
              /\ MapSum(a.allFileTypes, b.allFileTypes) = allFileTypes
        /\ \A f \in Orders(Len(repos)) :
           \A r \in {processRepositories(loc, now, email,
                          [i \in 1..Len(repos) |-> repos[f[i]]])} :
              r.commits = commits /\ r.allFileTypes = allFileTypes

DotGo == <<".", "g", "o">>
DotMD == <<".", "M", "D">>

C8_Witness ==
    /\ pc = "range"
    /\ Len(repos) = 2
    /\ Len(repos[1]) = 1 /\ Len(repos[2]) = 1
    /\ Get(allFileTypes, DotGo) = 4
    /\ \E k \in DOMAIN commits : commits[k] = 2

\* C9: the ranked list is the merged file-type histogram, every extension
\* once with its count, in order of non-increasing count.
C9_RankingIsSortedPermutation ==
    pc \in {"printCommitsStats", "printFileTypeStats", "done", "panic"} =>
        /\ Len(fileTypeStats) = Cardinality(DOMAIN allFileTypes)
        /\ \A e \in DOMAIN allFileTypes :
              Cardinality({i \in DOMAIN fileTypeStats :
                              fileTypeStats[i].Extension = e}) = 1
        /\ \A i \in DOMAIN fileTypeStats :
              /\ fileTypeStats[i].Extension \in DOMAIN allFileTypes
              /\ fileTypeStats[i].Count
                    = allFileTypes[fileTypeStats[i].Extension]
        /\ \A i \in 1..(Len(fileTypeStats) - 1) :
              fileTypeStats[i].Count >= fileTypeStats[i + 1].Count

C9_Witness ==
    /\ pc = "printCommitsStats"
    /\ Len(fileTypeStats) = 3
    /\ fileTypeStats[1] = [Extension |-> DotGo, Count |-> 2]
    /\ fileTypeStats[2] = [Extension |-> DotMD, Count |-> 1]
    /\ fileTypeStats[3] = [Extension |-> NoExtension, Count |-> 1]

\* "." and what follows the last "." of the name, or "no_extension"
ExpectedExtension(name) ==
    LET dots == {i \in 1..Len(name) : name[i] = "."}
    IN  IF dots = {} THEN NoExtension
        ELSE <<".">> \o [i \in 1..(Len(name) - Max(dots)) |->
                            name[Max(dots) + i]]

\* C10: getFileExtension returns "no_extension" for a name without "." and
\* otherwise "." with the text after the last ".", case preserved; a commit
\* touching main.go, util.go and readme counts {".go": 2, "no_extension": 1}.
C10_ExtensionExtraction ==
    /\ pc = "returned" => ret = <<ExpectedExtension(arg[1])>>
    /\ (pc = "callback" /\ arg = <<MainGo, UtilGo, Readme>>) =>
          ret.fileTypes = (DotGo :> 2) @@ (NoExtension :> 1)
    /\ pc = "callback" =>
          \A e \in DOMAIN ret.fileTypes :
              ret.fileTypes[e] = Cardinality({i \in DOMAIN arg :
                                    ExpectedExtension(arg[i]) = e})

C10_Witness ==
    /\ pc = "returned"
    /\ arg = << <<"a", ".", ".", "G">> >>
    /\ ret = << <<".", "G">> >>

\* C11: when a repository of the list cannot be opened, has no HEAD or fails
\* while its history is walked, the invocation stops there, at whatever
\* position of the list: no step follows the error, no later repository has
\* been opened and nothing has been written.
C11_ErrorAbortsInvocation ==
    [][/\ raised = <<>>
       /\ raised' # <<>> =>
             /\ pc' = "fillCommits panics"
             /\ out' = <<>>
             /\ Len(repos') <= raised'[1].at]_vars

C11_Witness ==
    /\ pc = "fillCommits panics"
    /\ Len(raised) = 1
    /\ raised[1].at = 2
    /\ Len(paths) = 2
    /\ Len(repos) = 1 /\ Len(repos[1]) = 1
    /\ \E k \in DOMAIN commits : commits[k] = 1
    /\ out = <<>>

\* the list a dot file stands for: its lines, none when there is no file
StoredList(f) == IF f.exists THEN ScanLines(f.content) ELSE <<>>

\* the members of N that are not in the set S, each once, in the order of N
RECURSIVE NewIn(_, _)
NewIn(N, S) ==
    IF N = <<>> THEN <<>>
    ELSE IF Head(N) \in S THEN NewIn(Tail(N), S)
    ELSE <<Head(N)>> \o NewIn(Tail(N), S \cup {Head(N)})

DuplicateFree(list) == \A a, b \in DOMAIN list : a # b => list[a] # list[b]

\* the step in which a scan reads, merges and writes the dot file
RegisterStep == pc = "addNewSliceElementsToFile" /\ pc' # pc

\* C12: a register on the stored list X with the found paths N leaves X
\* followed by the paths of N that X lacks, each once, in the order found;
\* X is a prefix of the new list, a list without duplicates stays so, and
\* registering what is already stored changes nothing.
C12_RegisterAppendsNewPaths ==
    [][RegisterStep =>
          LET X == StoredList(file)
              Y == StoredList(file')
          IN  /\ Y = X \o NewIn(found, Range(X))
              /\ SubSeq(Y, 1, Len(X)) = X
              /\ DuplicateFree(X) => DuplicateFree(Y)
              /\ Range(found) \subseteq Range(X) => Y = X]_vars

StatsStages == {"stats", "range", "foreach", "printCommitsStats",
                "printFileTypeStats", "done", "panic"}
ScanStages == {"scan", "addNewSliceElementsToFile", "exit", "log.Fatal"}

\* C13: with a non-empty -add option no step of the run is one of stats,
\* whatever the -email option; with an empty one no step is one of scan and
\* no step changes the stored list.
C13_OptionSelectsOperation ==
    [][/\ folder # "" => pc' \notin StatsStages
       /\ folder = "" => /\ pc' \notin ScanStages
                         /\ StoredList(file') = StoredList(file)]_vars

C13_Witness ==
    /\ pc = "exit"
    /\ folder = "/r"
    /\ email = TargetEmail
    /\ StoredList(file) = <<Path(2), Path(1)>>
    /\ found = <<Path(1)>>
    /\ \A i \in DOMAIN out : out[i].kind \notin {"cell", "months", "filetypes"}
    /\ out[Len(out)].kind = "successfully added"

\* C16: the run that finds no dot file creates it and goes on with an empty
\* list: it does not go wrong reading through the handle openFile returned,
\* and a register then stores exactly the paths found.
C16_MissingFileReadsAsEmpty ==
    [][(~file.exists /\ file'.exists) =>
          /\ pc' # "parseFileLinesToSlice panics"
          /\ RegisterStep => StoredList(file') = found]_vars

\* C14: the visible text of a cell is four characters wide for every count
\* from 0 to 999, today's cell or not.
C14_CellsFourWide ==
    pc = "printed" => Len(ret.text) = 4

\* the week columns printCells can show
Rendered == 0..(weeksInLastSixMonths + 1)

\* the weekday of the day whose commits bucket k counts
WeekdayOfBucket(k) == (Today - (k - calcOffset(loc, now))) % 7

\* C15: in every week column shown, index j holds the count of a day whose
\* weekday is j (0 = Sunday .. 6 = Saturday), on whatever weekday the
\* program runs, so that the rows labelled Mon, Wed and Fri (1, 3 and 5)
\* show Mondays, Wednesdays and Fridays.
C15_IndexIsWeekday ==
    Printed =>
        /\ printDayCol(1) = <<" ", "M", "o", "n", " ">>
        /\ printDayCol(3) = <<" ", "W", "e", "d", " ">>
        /\ printDayCol(5) = <<" ", "F", "r", "i", " ">>
        /\ \A keys \in {sortMapIntoSlice(commits)} :
           \A placed \in {buildCols(keys, [k \in DOMAIN commits |-> k])} :
           \A w \in DOMAIN placed \cap Rendered :
           \A j \in 0..(Len(placed[w]) - 1) :
              WeekdayOfBucket(placed[w][j + 1]) = j

\* C17: every stored week column w that can be shown holds at index j the
\* count of bucket 7 * w + j, so that a count is shown in row (bucket % 7)
\* and the cells of a row, those of week 0 too, are days of one weekday.
C17_IndexIsBucket ==
    Printed =>
        \A keys \in {sortMapIntoSlice(commits)} :
        \A placed \in {buildCols(keys, [k \in DOMAIN commits |-> k])} :
        \A w \in DOMAIN placed \cap Rendered :
        \A j \in 0..(Len(placed[w]) - 1) :
           /\ placed[w][j + 1] = 7 * w + j
           /\ cols[w][j + 1] = Get(commits, 7 * w + j)
           /\ placed[w][j + 1] % 7 = j
           /\ \A v \in DOMAIN placed \cap Rendered :
                 j < Len(placed[v]) =>
                    WeekdayOfBucket(placed[v][j + 1])
                       = WeekdayOfBucket(placed[w][j + 1])

\* the day count of the calendar day of t: 0 from today's midnight on, the
\* number of days before today up to daysInLastSixMonths, outOfRange beyond
ExpectedDays(t) ==
    IF t >= getBeginningOfDay(loc, now) THEN 0
    ELSE IF Today - LocalDay(loc, t) <= daysInLastSixMonths
         THEN Today - LocalDay(loc, t)
         ELSE outOfRange

\* C18: countDaysSinceDate returns a value in 0..183 or outOfRange: 0 for a
\* timestamp at or after today's midnight, d for a timestamp on the calendar
\* day d <= 183 days before today, outOfRange for anything older.
C18_DayCountByCalendarDay ==
    pc = "counted" =>
        \A i \in 1..2 :
            /\ ret[i] - calcOffset(loc, now)
                  \in 0..daysInLastSixMonths \cup {outOfRange}
            /\ ret[i] - calcOffset(loc, now) = ExpectedDays(arg[i])

\* C19: every reading of the clock within one invocation gives the same
\* today, also when time passes between the readings: the offset fillCommits
\* took is the one of the day countDaysSinceDate counts from for each commit
\* and the one printCells looks for today's cell with.
C19_OneToday ==
    [][/\ CallbackStep => offset = calcOffset(loc, now)
       /\ (pc = "printCommitsStats" /\ pc' # pc /\ offset # 0)
             => offset = calcOffset(loc, now)]_vars

====
